---- MODULE Spec2Model ----
(***************************************************************************)
(* Model of the gadget call bridge of gadget_standard / zkinterface:       *)
(*   src/src/gadget_call.rs       call_gadget, length passed by the caller  *)
(*   src/rust/src/gadget_call.rs  call_gadget, size-prefixed buffers, and   *)
(*                                AssignmentContext / its iterator          *)
(*   src/cpp/libsnark-rust/src/libsnark_wrapper.rs  call_gadget_wrapper     *)
(* The native routine (gadget_request / gadgetlib_call_gadget) is external: *)
(* it is a nondeterministic sequence of callback invocations followed by a  *)
(* boolean return.                                                          *)
(*   src/rust/src/owned/witness.rs  WitnessOwned and its encoder            *)
(* Specifications:                                                          *)
(*   Spec         one call through one of the three bridges                 *)
(*   SpecTwo      two iterators on the result of one call                   *)
(*   SpecCodec    the encoders applied to single values                     *)
(*   SpecThreads  two threads calling side by side, native buffers reused   *)
(*   SpecGadget   calls served by a gadget that allocates variable ids      *)
(*   SpecChannels the wrapper's three channels feeding one context          *)
(***************************************************************************)
EXTENDS Integers, Sequences, FiniteSets, TLC

\* ---------------------------------------------------------------- bounds
\* stream callback invocations the native routine makes in one call
MaxStream == 2
\* terminal (response) callback invocations the native routine makes
MaxResponse == 2
\* longest out-of-bounds copy that is represented byte by byte
MaxCopy == 6

\* ------------------------------------------------------------- utilities
None == <<>>
Some(x) == <<x>>
is_some(o) == Len(o) = 1
unwrap(o) == o[1]

Max(a, b) == IF a >= b THEN a ELSE b

IsPrefix(s, t) == Len(s) <= Len(t) /\ s = SubSeq(t, 1, Len(s))

\* A length that does not fit 16 bits: larger than every modelled allocation.
HugeLen == 65535 + 1

\* ------------------------------------------------------- u32 arithmetic
\* A u32 is kept as two 16-bit halves, value = hi * 2^16 + lo.

\* ((buf[0] as u32) << 0) | (buf[1] << 8) | (buf[2] << 16) | (buf[3] << 24)
read_size_prefix(b) ==
    [lo |-> b[1] + 256 * b[2], hi |-> b[3] + 256 * b[4]]

\* u32 addition; overflow tells whether the mathematical sum left 32 bits
u32_add(x, k) ==
    LET l == x.lo + k
        h == x.hi + (l \div 65536)
    IN  [lo |-> l % 65536, hi |-> h % 65536, overflow |-> h >= 65536]

\* `as usize`, as a number of bytes comparable with a modelled allocation
as_usize(x) == IF x.hi = 0 THEN x.lo ELSE HugeLen

\* the little-endian size prefix of a payload of n bytes (n < 2^16 here)
size_prefix(n) == <<n % 256, n \div 256, 0, 0>>

\* ------------------------------------------------------------ wire model
\* Values of the union discriminant Root.message_type.
MsgNONE == 0
MsgAssignedVariables == 1
MsgAssignmentResponse == 2
MsgAssignmentRequest == 3

\* presence bits of the optional table fields of an AssignedVariables message
HasValues == 1
HasVariableIds == 2
HasElements == 4
AllPresent == 7

Bit(flags, b) == (flags \div b) % 2 = 1

\* builder.finish_size_prefixed: prefix = length of everything that follows
finish_size_prefixed(payload) == size_prefix(Len(payload)) \o payload

\* An AssignedVariables message: discriminant, presence bits, the id vector
\* with its length, the element vector with its length.
EncodeAssignedVariables(ids, elements) ==
    finish_size_prefixed(<<MsgAssignedVariables, AllPresent, Len(ids)>> \o ids
                         \o <<Len(elements)>> \o elements)

\* An AssignmentResponse message: discriminant, free_variable_id_after.
EncodeAssignmentResponse(free_after) ==
    finish_size_prefixed(<<MsgAssignmentResponse, free_after>>)

\* get_size_prefixed_root_as_root: skips the 4 prefix bytes without looking
\* at their value and reads the root behind them; panics (slice index out of
\* range) when the buffer ends before the root.
get_size_prefixed_root_as_root(buf) ==
    IF Len(buf) < 5
    THEN [tag |-> "panic"]
    ELSE [tag |-> "ok", message_type |-> buf[5],
          body |-> SubSeq(buf, 6, Len(buf))]

\* Root::message_as_assigned_variables: Some only for that discriminant
message_as_assigned_variables(root) ==
    IF root.message_type = MsgAssignedVariables THEN Some(root.body) ELSE None

\* Root::message_as_assignment_response
message_as_assignment_response(root) ==
    IF root.message_type = MsgAssignmentResponse /\ Len(root.body) >= 1
    THEN Some([free_variable_id_after |-> root.body[1]])
    ELSE None

\* AssignedVariables::values, an optional table
values(av) ==
    IF Len(av) >= 1 /\ Bit(av[1], HasValues) THEN Some(av) ELSE None

\* VariableValues::variable_ids, an optional vector with its own length
variable_ids(v) ==
    IF Bit(v[1], HasVariableIds) /\ Len(v) >= 2 /\ Len(v) >= 2 + v[2]
    THEN Some(SubSeq(v, 3, 2 + v[2]))
    ELSE None

\* VariableValues::elements, an optional vector with its own length
elements(v) ==
    LET n == IF Len(v) >= 2 THEN v[2] ELSE 0
        at == 3 + n
    IN  IF Bit(v[1], HasElements) /\ Len(v) >= at /\ Len(v) >= at + v[at]
        THEN Some(SubSeq(v, at + 1, at + v[at]))
        ELSE None

\* ---------------------------------------------- wire model, request side
MsgCircuit == 4
MsgWitness == 5
MsgCommand == 6
MsgR1CSConstraints == 7

\* presence bits of the fields of a GadgetInstance table
HasGadgetName == 1
HasIncoming == 2
HasOutgoing == 4
HasFreeBefore == 8
HasFieldOrder == 16
HasConfiguration == 32

\* presence bit of the one table field of a Witness or AssignmentRequest
HasTable == 1

\* builder.create_vector / builder.create_string: the length, then the items
create_vector(s) == <<Len(s)>> \o s

\* the weight of a presence bit in the flags byte of a table
Flag(present, b) == IF present THEN b ELSE 0

\* the bytes of an optional vector field
Field(o) == IF is_some(o) THEN unwrap(o) ELSE <<>>

\* GadgetInstance::create: a field is written when its argument is Some; a
\* scalar is written when it differs from its default 0
GadgetInstance_create(args) ==
    <<Flag(is_some(args.gadget_name), HasGadgetName)
      + Flag(is_some(args.incoming_variable_ids), HasIncoming)
      + Flag(is_some(args.outgoing_variable_ids), HasOutgoing)
      + Flag(args.free_variable_id_before # 0, HasFreeBefore)
      + Flag(is_some(args.field_order), HasFieldOrder)
      + Flag(is_some(args.configuration), HasConfiguration)>>
    \o Field(args.gadget_name)
    \o Field(args.incoming_variable_ids)
    \o Field(args.outgoing_variable_ids)
    \o (IF args.free_variable_id_before # 0
        THEN <<args.free_variable_id_before>> ELSE <<>>)
    \o Field(args.field_order)
    \o Field(args.configuration)

\* reading an optional vector field at position at of a table: the value
\* and the position behind it
read_vector(t, present, at) ==
    IF present
    THEN [value |-> Some(SubSeq(t, at + 1, at + t[at])), next |-> at + 1 + t[at]]
    ELSE [value |-> None, next |-> at]

\* the accessors of a GadgetInstance table: gadget_name(),
\* incoming_variable_ids(), outgoing_variable_ids(),
\* free_variable_id_before() with its default, field_order()
GadgetInstance_read(t) ==
    LET name == read_vector(t, Bit(t[1], HasGadgetName), 2)
        inc == read_vector(t, Bit(t[1], HasIncoming), name.next)
        out == read_vector(t, Bit(t[1], HasOutgoing), inc.next)
        hasFree == Bit(t[1], HasFreeBefore)
        afterFree == IF hasFree THEN out.next + 1 ELSE out.next
        order == read_vector(t, Bit(t[1], HasFieldOrder), afterFree)
    IN  [gadget_name |-> name.value,
         incoming_variable_ids |-> inc.value,
         outgoing_variable_ids |-> out.value,
         free_variable_id_before |-> IF hasFree THEN t[out.next] ELSE 0,
         field_order |-> order.value]

\* presence bits of the other fields of an AssignmentRequest
HasIncomingElements == 2
HasWitness == 4

\* AssignmentRequest::create
AssignmentRequest_create(args) ==
    <<Flag(is_some(args.instance), HasTable)
      + Flag(is_some(args.incoming_elements), HasIncomingElements)
      + Flag(is_some(args.witness), HasWitness)>>
    \o Field(args.instance)
    \o Field(args.incoming_elements)
    \o Field(args.witness)

\* Root::create: the union discriminant, then the table
Root_create(message_type, message) == <<message_type>> \o message

\* Root::message_as_assignment_request, then AssignmentRequest::instance
message_as_assignment_request(root) ==
    IF root.message_type = MsgAssignmentRequest /\ Len(root.body) >= 1
    THEN Some([instance |-> IF Bit(root.body[1], HasTable)
                            THEN Some(SubSeq(root.body, 2, Len(root.body)))
                            ELSE None])
    ELSE None

\* VariablesOwned::build: the id vector always, the values when present
VariablesOwned_build(v) ==
    <<HasVariableIds + Flag(is_some(v.values), HasElements)>>
    \o create_vector(v.variable_ids)
    \o (IF is_some(v.values) THEN create_vector(unwrap(v.values)) ELSE <<>>)

\* Witness::create
Witness_create(args) ==
    <<Flag(is_some(args.assigned_variables), HasTable)>>
    \o Field(args.assigned_variables)

\* presence bits of the fields of a Circuit table
HasConnections == 1
HasFreeVariableId == 2
HasFieldMaximum == 4

\* Circuit::create
Circuit_create(args) ==
    <<Flag(is_some(args.connections), HasConnections)
      + Flag(args.free_variable_id # 0, HasFreeVariableId)
      + Flag(is_some(args.field_maximum), HasFieldMaximum)>>
    \o Field(args.connections)
    \o (IF args.free_variable_id # 0 THEN <<args.free_variable_id>> ELSE <<>>)
    \o Field(args.field_maximum)

\* Circuit::free_variable_id, behind the connections table; 0 by default
Circuit_free_variable_id(t) ==
    LET ids == IF Bit(t[1], HasConnections) THEN 3 ELSE 2
        vals == IF Bit(t[1], HasConnections) THEN ids + 1 + t[ids] ELSE ids
        at == IF Bit(t[1], HasConnections) /\ Bit(t[2], HasElements)
              THEN vals + 1 + t[vals] ELSE vals
    IN  IF Bit(t[1], HasFreeVariableId) THEN t[at] ELSE 0

\* bits of the two flags of a Command table, false being the default
ConstraintsGeneration == 1
WitnessGeneration == 2

\* Command::create
Command_create(args) ==
    <<Flag(args.constraints_generation, ConstraintsGeneration)
      + Flag(args.witness_generation, WitnessGeneration)>>

\* CircuitOwned::write: one size-prefixed Circuit message appended
CircuitOwned_write(circuit, writer) ==
    writer \o finish_size_prefixed(Root_create(MsgCircuit, Circuit_create(
        [connections |-> Some(VariablesOwned_build(circuit.connections)),
         free_variable_id |-> circuit.free_variable_id,
         field_maximum |-> IF is_some(circuit.field_maximum)
                           THEN Some(create_vector(unwrap(circuit.field_maximum)))
                           ELSE None])))

\* CommandOwned::write: one size-prefixed Command message appended
CommandOwned_write(command, writer) ==
    writer \o finish_size_prefixed(Root_create(MsgCommand, Command_create(
        [constraints_generation |-> command.constraints_generation,
         witness_generation |-> command.witness_generation])))

\* ------------------------------------------------- the unsafe boundary
\* A pointer handed to a callback is modelled by the bytes of the native
\* allocation it points to.  Reading past the allocation is undefined
\* behaviour: the process aborts, or the read yields some garbage byte.
GarbageBytes == {0, 255}

\* the n bytes found at the pointer, garbage g standing for bytes past the end
raw_read(mem, n, g) == [i \in 1..n |-> IF i <= Len(mem) THEN mem[i] ELSE g]

Aborted(read) == [tag |-> "abort", buf |-> <<>>, read |-> read]

\* slice::from_raw_parts(ptr, n) followed by Vec::from(buf): the outcomes of
\* copying n bytes from the allocation mem; `read` is the number of bytes
\* dereferenced, counting the `prefix` bytes already read.
from_raw_parts(mem, n, prefix) ==
    IF n <= Len(mem)
    THEN {[tag |-> "ok", buf |-> SubSeq(mem, 1, n), read |-> Max(prefix, n)]}
    ELSE {Aborted(Max(prefix, n))}
         \cup (IF n <= MaxCopy
               THEN {[tag |-> "ok", buf |-> raw_read(mem, n, g),
                      read |-> Max(prefix, n)] : g \in GarbageBytes}
               ELSE {})

\* from_c of src/rust/src/gadget_call.rs and libsnark_wrapper.rs, given the
\* four bytes p that read_size_prefix obtained: response_len is p + 4 in u32.
\* On overflow a build with overflow checks panics inside the extern "C"
\* callback (abort); a build without them wraps.
from_c_prefix(mem, p) ==
    LET response_len == u32_add(read_size_prefix(p), 4)
    IN  (IF response_len.overflow THEN {Aborted(4)} ELSE {})
        \cup from_raw_parts(mem, as_usize(response_len), 4)

\* from_c with a size prefix: read_size_prefix always reads 4 bytes at the
\* pointer, whatever the allocation holds.
from_c(mem) ==
    IF Len(mem) >= 4
    THEN from_c_prefix(mem, SubSeq(mem, 1, 4))
    ELSE {Aborted(4)}
         \cup UNION {from_c_prefix(mem, raw_read(mem, 4, g)) : g \in GarbageBytes}

\* from_c of src/src/gadget_call.rs: the native side passes the length
from_c_sized(mem, response_len) == from_raw_parts(mem, response_len, 0)

\* ---------------------------------------------------- native behaviour
\* Buffers the native routine hands to the callbacks.
MsgTwoVars == EncodeAssignedVariables(<<103, 104>>, <<10, 11, 12, 8, 7, 6>>)
MsgOneVar == EncodeAssignedVariables(<<105>>, <<9, 9>>)
MsgUneven == EncodeAssignedVariables(<<7, 8>>, <<1, 2, 3>>)
MsgShort == EncodeAssignedVariables(<<7, 8>>, <<1>>)
MsgNoVars == EncodeAssignedVariables(<<>>, <<>>)
MsgResponse == EncodeAssignmentResponse(105)
\* a buffer that ends inside its size prefix
BufTruncated == <<1, 0>>
\* a buffer whose size prefix is 2^32 - 1
BufMaxPrefix == <<255, 255, 255, 255, MsgNONE>>

StreamBuffers ==
    {MsgTwoVars, MsgOneVar, MsgUneven, MsgShort, MsgNoVars, MsgResponse,
     BufTruncated, BufMaxPrefix}

ResponseBuffers == {MsgResponse, MsgTwoVars, BufTruncated, BufMaxPrefix}

\* the length the native side passes along with a pointer (src/src variant)
SizedLen(mem) == Len(mem)

\* ------------------------------------------------------------------ state
VARIABLES
    variant,    \* which bridge runs: "sized", "prefixed" or "wrapper"
    pc,         \* "idle", "native" (inside the native routine), "returned",
                \* "aborted" (the process died inside a callback)
    context,    \* the context local to call_gadget / call_gadget_wrapper
    result,     \* what the call returned to its caller
    ok,         \* the boolean the native routine returned
    streamed,   \* history: allocations passed to the stream callback
    terminalCalls, \* number of terminal callback invocations so far
    alloc,      \* length of the allocation passed to the latest callback
    readEnd,    \* bytes the latest callback dereferenced at its pointer
    lastRet,    \* what the latest callback returned to the native side
    iters,      \* the AssignedVariablesIterator values created on the result
    yielded,    \* history: what each iterator's next() returned as Some
    responseOut, \* what the latest AssignmentContext::response() returned
    codec,      \* an encoder or decoder applied to one input, outside a call
    calls,      \* the calls two independent threads make, one per thread
    scratch,    \* the buffer each thread's native routine passes and reuses
    gadget,     \* the native gadget serving the running call
    test,       \* the position of test_cpp_gadget and what it has read
    received    \* history: what each channel's callback copied, in order

\* the variables of one call through the bridge
bridge == <<variant, pc, context, result, ok, streamed, terminalCalls, alloc,
            readEnd, lastRet, iters, yielded, responseOut>>

\* the variables a call through the bridge does not touch
elsewhere == <<codec, calls, scratch, gadget, test, received>>

vars == <<bridge, elsewhere>>

\* the iterators a caller holds on one AssignmentContext
Iterators == {1, 2}

\* an iterator not created yet
NoIter == [state |-> "absent", last |-> "absent"]

Variants == {"sized", "prefixed", "wrapper"}

\* the value of a local that was moved out or dropped
NoContext == [dropped |-> TRUE]

\* no encoder or decoder is being applied
NoCodec == [op |-> "none"]

\* the threads that call the bridge side by side
Threads == {1, 2}

\* a thread that has not called yet
IdleCall ==
    [pc |-> "idle", context |-> NoContext, delivered |-> <<>>,
     terminal |-> None, terminalCalls |-> 0,
     result |-> [tag |-> "none", ctx |-> NoContext]]

\* no native gadget is attached
NoGadget == [request |-> <<>>, next_id |-> 0, responded |-> FALSE]

\* no test is running
NoTest == [step |-> "off"]

CodecOff == codec = NoCodec

ThreadsOff ==
    /\ calls = [t \in Threads |-> IdleCall]
    /\ scratch = [t \in Threads |-> <<>>]

GadgetOff == gadget = NoGadget /\ test = NoTest

ChannelsOff == received = <<>>


\* CallbackContext { result_stream: vec![], response: None }
NewCallbackContext == [result_stream |-> <<>>, response |-> None]

\* free_variable_id of the circuit the wrapper is called with
FirstFreeId == 104

\* Messages::new(first_id)
NewMessages(first_id) == [messages |-> <<>>, first_id |-> first_id]

\* the envelope validation of the accumulator's push
ValidEnvelope(buf) ==
    /\ Len(buf) >= 4
    /\ LET declared == read_size_prefix(SubSeq(buf, 1, 4))
       IN  ~u32_add(declared, 4).overflow
           /\ as_usize(u32_add(declared, 4)) <= Len(buf)

\* Messages::push_message
push_message(ctx, buf) ==
    IF ValidEnvelope(buf)
    THEN [is_ok |-> TRUE, ctx |-> [ctx EXCEPT !.messages = Append(@, buf)]]
    ELSE [is_ok |-> FALSE, ctx |-> ctx]

InitBridge ==
    /\ variant \in Variants
    /\ pc = "idle"
    /\ context = NoContext
    /\ result = [tag |-> "none", ctx |-> NoContext]
    /\ ok = "none"
    /\ streamed = <<>>
    /\ terminalCalls = 0
    /\ alloc = 0
    /\ readEnd = 0
    /\ lastRet = "none"
    /\ iters = [k \in Iterators |-> NoIter]
    /\ yielded = [k \in Iterators |-> <<>>]
    /\ responseOut = [tag |-> "uncalled"]

Init ==
    /\ InitBridge
    /\ CodecOff
    /\ ThreadsOff
    /\ ChannelsOff
    /\ GadgetOff

\* call_gadget / call_gadget_wrapper up to the native call: the context is
\* created empty and its address handed to the native routine
call_gadget ==
    /\ pc = "idle"
    /\ pc' = "native"
    /\ context' = IF variant = "wrapper" THEN NewMessages(FirstFreeId)
                  ELSE NewCallbackContext
    /\ UNCHANGED <<variant, result, ok, streamed, terminalCalls, alloc, readEnd,
                   lastRet, iters, yielded, responseOut>>
    /\ UNCHANGED elsewhere

\* the outcomes of from_c for a pointer to mem in the running variant
FromC(mem) ==
    IF variant = "sized"
    THEN from_c_sized(mem, SizedLen(mem))
    ELSE from_c(mem)

\* context.result_stream.push(Vec::from(buf))
push_result(ctx, buf) ==
    [ctx EXCEPT !.result_stream = Append(@, buf)]

\* context.response = Some(Vec::from(buf))
set_response(ctx, buf) ==
    [ctx EXCEPT !.response = Some(buf)]

\* result_stream_callback_c
result_stream_callback_c ==
    /\ pc = "native"
    /\ variant # "wrapper"
    /\ Len(streamed) < MaxStream
    /\ \E mem \in StreamBuffers : \E o \in FromC(mem) :
        /\ streamed' = Append(streamed, mem)
        /\ alloc' = Len(mem)
        /\ readEnd' = o.read
        /\ IF o.tag = "ok"
           THEN /\ context' = push_result(context, o.buf)
                /\ lastRet' = "true"
                /\ pc' = pc
           ELSE /\ pc' = "aborted"
                /\ UNCHANGED <<context, lastRet>>
    /\ UNCHANGED <<variant, result, ok, terminalCalls, iters, yielded,
                   responseOut>>
    /\ UNCHANGED elsewhere

\* response_callback_c
response_callback_c ==
    /\ pc = "native"
    /\ variant # "wrapper"
    /\ terminalCalls < MaxResponse
    /\ \E mem \in ResponseBuffers : \E o \in FromC(mem) :
        /\ terminalCalls' = terminalCalls + 1
        /\ alloc' = Len(mem)
        /\ readEnd' = o.read
        /\ IF o.tag = "ok"
           THEN /\ context' = set_response(context, o.buf)
                /\ lastRet' = "true"
                /\ pc' = pc
           ELSE /\ pc' = "aborted"
                /\ UNCHANGED <<context, lastRet>>
    /\ UNCHANGED <<variant, result, ok, streamed, iters, yielded,
                   responseOut>>
    /\ UNCHANGED elsewhere

\* receive_message_callback, registered for the constraints, witness and
\* return channels alike
receive_message_callback ==
    /\ pc = "native"
    /\ variant = "wrapper"
    /\ \E terminal \in BOOLEAN :
        /\ IF terminal THEN terminalCalls < MaxResponse
                       ELSE Len(streamed) < MaxStream
        /\ \E mem \in (IF terminal THEN ResponseBuffers ELSE StreamBuffers) :
           \E o \in from_c(mem) :
            /\ IF terminal
               THEN terminalCalls' = terminalCalls + 1 /\ streamed' = streamed
               ELSE streamed' = Append(streamed, mem)
                    /\ terminalCalls' = terminalCalls
            /\ alloc' = Len(mem)
            /\ readEnd' = o.read
            /\ IF o.tag = "ok"
               THEN LET r == push_message(context, o.buf)
                    IN  /\ context' = r.ctx
                        /\ lastRet' = IF r.is_ok THEN "true" ELSE "false"
                        /\ pc' = pc
               ELSE /\ pc' = "aborted"
                    /\ UNCHANGED <<context, lastRet>>
    /\ UNCHANGED <<variant, result, ok, iters, yielded, responseOut>>
    /\ UNCHANGED elsewhere

\* match_ok handing the partly filled context out with the error
match_ok_partial(okv, ctx) ==
    [tag |-> IF okv THEN "Ok" ELSE "Err", ctx |-> ctx]

\* match ok { false => Err(..), true => Ok(context) }
match_ok(okv, ctx) ==
    IF okv THEN [tag |-> "Ok", ctx |-> ctx]
    ELSE [tag |-> "Err", ctx |-> NoContext]

\* the native routine returns and call_gadget returns to its caller; the
\* local context is moved into the result or dropped
native_return ==
    /\ pc = "native"
    /\ \E okv \in BOOLEAN :
        /\ ok' = IF okv THEN "true" ELSE "false"
        /\ result' = match_ok(okv, context)
    /\ context' = NoContext
    /\ pc' = "returned"
    /\ UNCHANGED <<variant, streamed, terminalCalls, alloc, readEnd, lastRet,
                   iters, yielded, responseOut>>
    /\ UNCHANGED elsewhere

\* -------------------------------------------- AssignedVariablesIterator
\* AssignmentContext::iter_assignment
iter_assignment_new(ctx) ==
    [state |-> "active", messages_iter |-> 0, var_ids |-> <<>>,
     elements |-> <<>>, next_element |-> 0, last |-> "new"]

\* messages_iter_next taking the messages out of the vector (a drain)
messages_iter_next_drain(stream, pos) ==
    IF stream # <<>>
    THEN [item |-> Some(Head(stream)), pos |-> pos + 1, stream |-> Tail(stream)]
    ELSE [item |-> None, pos |-> pos, stream |-> stream]

\* slice::Iter::next on the borrowed result_stream: the item, the advanced
\* position, and the backing vector, which a shared borrow leaves as it is
messages_iter_next(stream, pos) ==
    IF pos < Len(stream)
    THEN [item |-> Some(stream[pos + 1]), pos |-> pos + 1, stream |-> stream]
    ELSE [item |-> None, pos |-> pos, stream |-> stream]

\* the chain of unwraps that parses one message (lines 141-147):
\* the two slices, or a panic
parse_assigned_variables(buf) ==
    LET message == get_size_prefixed_root_as_root(buf)
    IN  IF message.tag = "panic" THEN [tag |-> "panic"]
        ELSE LET assigned_variables == message_as_assigned_variables(message)
             IN  IF ~is_some(assigned_variables) THEN [tag |-> "panic"]
                 ELSE LET vals == values(unwrap(assigned_variables))
                      IN  IF ~is_some(vals) THEN [tag |-> "panic"]
                          ELSE LET ids == variable_ids(unwrap(vals))
                                   els == elements(unwrap(vals))
                               IN  IF ~is_some(ids) \/ ~is_some(els)
                                   THEN [tag |-> "panic"]
                                   ELSE [tag |-> "ok",
                                         var_ids |-> unwrap(ids),
                                         elements |-> unwrap(els)]

\* the while loop of next(): grab messages until one has a record left
RECURSIVE load_message(_, _)
load_message(it, stream) ==
    IF it.next_element < Len(it.var_ids)
    THEN [tag |-> "ready", it |-> it, stream |-> stream]
    ELSE LET m == messages_iter_next(stream, it.messages_iter)
             it1 == [it EXCEPT !.messages_iter = m.pos]
         IN  IF ~is_some(m.item)
             THEN [tag |-> "none", it |-> it1, stream |-> m.stream]
             ELSE LET parsed == parse_assigned_variables(unwrap(m.item))
                  IN  IF parsed.tag = "panic"
                      THEN [tag |-> "panic", it |-> it1, stream |-> m.stream]
                      ELSE load_message(
                               [it1 EXCEPT !.var_ids = parsed.var_ids,
                                           !.elements = parsed.elements,
                                           !.next_element = 0],
                               m.stream)

\* let stride = self.elements.len() / self.var_ids.len();
stride_of(els, ids) == Len(els) \div Len(ids)

\* empty_stride that never reports a zero stride
empty_stride_unchecked(stride) == FALSE

\* if stride == 0 { panic!("Empty elements data."); }
empty_stride(stride) == stride = 0

\* element_slice starting at byte i instead of at record i
element_slice_unscaled(els, stride, i) == SubSeq(els, i + 1, i + stride)

\* &self.elements[stride * i..stride * (i + 1)]
element_slice(els, stride, i) == SubSeq(els, stride * i + 1, stride * (i + 1))

\* iter_next whose message iterator starts over once it has returned None
iter_next_restarting(it, stream) ==
    LET l == load_message(
                 [it EXCEPT !.messages_iter = IF it.last = "none" THEN 0 ELSE @],
                 stream)
    IN  IF l.tag = "none"
        THEN [it |-> [l.it EXCEPT !.last = "none"], item |-> None,
              stream |-> l.stream]
        ELSE IF l.tag = "panic"
        THEN [it |-> [l.it EXCEPT !.state = "panicked", !.last = "panic"],
              item |-> None, stream |-> l.stream]
        ELSE LET stride == stride_of(l.it.elements, l.it.var_ids)
                 i == l.it.next_element
             IN  IF empty_stride(stride)
                 THEN [it |-> [l.it EXCEPT !.state = "panicked",
                                           !.last = "panic"],
                       item |-> None, stream |-> l.stream]
                 ELSE [it |-> [l.it EXCEPT !.next_element = i + 1,
                                           !.last = "some"],
                       item |-> Some([id |-> l.it.var_ids[i + 1],
                                      element |-> element_slice(
                                          l.it.elements, stride, i)]),
                       stream |-> l.stream]

\* AssignedVariablesIterator::next: the iterator afterwards, the item, and
\* the result_stream it borrowed
iter_next(it, stream) ==
    LET l == load_message(it, stream)
    IN  IF l.tag = "none"
        THEN [it |-> [l.it EXCEPT !.last = "none"], item |-> None,
              stream |-> l.stream]
        ELSE IF l.tag = "panic"
        THEN [it |-> [l.it EXCEPT !.state = "panicked", !.last = "panic"],
              item |-> None, stream |-> l.stream]
        ELSE LET stride == stride_of(l.it.elements, l.it.var_ids)
                 i == l.it.next_element
             IN  IF empty_stride(stride)
                 THEN [it |-> [l.it EXCEPT !.state = "panicked",
                                           !.last = "panic"],
                       item |-> None, stream |-> l.stream]
                 ELSE [it |-> [l.it EXCEPT !.next_element = i + 1,
                                           !.last = "some"],
                       item |-> Some([id |-> l.it.var_ids[i + 1],
                                      element |-> element_slice(
                                          l.it.elements, stride, i)]),
                       stream |-> l.stream]

\* a caller holding the AssignmentContext of a successful call creates one
\* of the iterators K
iter_assignment_on(K) ==
    /\ pc = "returned"
    /\ variant = "prefixed"
    /\ result.tag = "Ok"
    /\ \E k \in K :
        /\ iters[k].state = "absent"
        /\ iters' = [iters EXCEPT ![k] = iter_assignment_new(result.ctx)]
    /\ UNCHANGED <<variant, pc, context, result, ok, streamed, terminalCalls,
                   alloc, readEnd, lastRet, yielded, responseOut>>
    /\ UNCHANGED elsewhere

\* a caller calls next() on one of its iterators K
next_on(K) ==
    /\ pc = "returned"
    /\ \E k \in K :
        /\ iters[k].state = "active"
        /\ LET r == iter_next(iters[k], result.ctx.result_stream)
           IN  /\ iters' = [iters EXCEPT ![k] = r.it]
               /\ yielded' = [yielded EXCEPT
                                ![k] = IF is_some(r.item)
                                       THEN Append(@, unwrap(r.item)) ELSE @]
               /\ result' = [result EXCEPT !.ctx.result_stream = r.stream]
    /\ UNCHANGED <<variant, pc, context, ok, streamed, terminalCalls, alloc,
                   readEnd, lastRet, responseOut>>
    /\ UNCHANGED elsewhere

\* one iterator over the result
iter_assignment == iter_assignment_on({1})

next == next_on({1})

\* two iterators over the same result, their next() calls interleaved
iter_assignment_again == iter_assignment_on(Iterators)

next_interleaved == next_on(Iterators)

\* AssignmentContext::response: None without a stored buffer (the `?`),
\* otherwise whatever the root read behind the prefix casts to
response_of(ctx) ==
    IF ~is_some(ctx.response) THEN [tag |-> "None"]
    ELSE LET message == get_size_prefixed_root_as_root(unwrap(ctx.response))
         IN  IF message.tag = "panic" THEN [tag |-> "panic"]
             ELSE LET r == message_as_assignment_response(message)
                  IN  IF is_some(r)
                      THEN [tag |-> "Some", free_variable_id_after |->
                                unwrap(r).free_variable_id_after]
                      ELSE [tag |-> "None"]

\* a caller reads the terminal response of a successful call
response ==
    /\ pc = "returned"
    /\ variant = "prefixed"
    /\ result.tag = "Ok"
    /\ responseOut.tag = "uncalled"
    /\ responseOut' = response_of(result.ctx)
    /\ UNCHANGED <<variant, pc, context, result, ok, streamed, terminalCalls,
                   alloc, readEnd, lastRet, iters, yielded>>
    /\ UNCHANGED elsewhere

Next ==
    \/ call_gadget
    \/ result_stream_callback_c
    \/ response_callback_c
    \/ receive_message_callback
    \/ native_return
    \/ iter_assignment
    \/ next
    \/ response

Spec == Init /\ [][Next]_vars

\* The size-prefixed bridge with two iterators held on its result.
InitTwo == Init /\ variant = "prefixed"

NextTwo ==
    \/ call_gadget
    \/ result_stream_callback_c
    \/ response_callback_c
    \/ native_return
    \/ iter_assignment_again
    \/ next_interleaved

SpecTwo == InitTwo /\ [][NextTwo]_vars

\* ------------------------------------------------ encoders and decoders
\* longest id vector of an encoded value
MaxIds == 2

\* the sequences over S of length at most n
SeqsUpTo(S, n) == UNION {[1..k -> S] : k \in 0..n}

\* the optional values over the set S
Option(S) == {None} \cup {Some(x) : x \in S}

IdSeqs == SeqsUpTo({100, 101}, MaxIds)

\* struct InstanceDescription
InstanceDescriptions ==
    [gadget_name : {<<>>, <<115, 104>>},
     incoming_variable_ids : IdSeqs,
     outgoing_variable_ids : Option(SeqsUpTo({102}, 1)),
     free_variable_id_before : {0, 103},
     field_order : Option({<<>>, <<97>>})]

\* struct VariablesOwned
VariablesOwneds ==
    [variable_ids : IdSeqs, values : Option({<<>>, <<4, 5>>})]

\* struct WitnessOwned; WitnessOwned::default() has no ids and no values
WitnessOwneds == [assigned_variables : VariablesOwneds]

\* struct CircuitOwned
CircuitOwneds ==
    [connections : VariablesOwneds,
     free_variable_id : {0, 104},
     field_maximum : Option({<<97>>})]

\* struct CommandOwned
CommandOwneds ==
    [constraints_generation : BOOLEAN, witness_generation : BOOLEAN]

\* what the writer handed to write_into holds already
Writers == {<<>>, <<7>>}

\* InstanceDescription::build writing an empty vector for an absent
\* outgoing_variable_ids
InstanceDescription_build_flat(x) ==
    GadgetInstance_create(
        [gadget_name |-> Some(create_vector(x.gadget_name)),
         incoming_variable_ids |-> Some(create_vector(x.incoming_variable_ids)),
         outgoing_variable_ids |->
             IF is_some(x.outgoing_variable_ids)
             THEN Some(create_vector(unwrap(x.outgoing_variable_ids)))
             ELSE Some(create_vector(<<>>)),
         free_variable_id_before |-> x.free_variable_id_before,
         field_order |-> IF is_some(x.field_order)
                         THEN Some(create_vector(unwrap(x.field_order)))
                         ELSE None,
         configuration |-> None])

\* InstanceDescription::build
InstanceDescription_build(x) ==
    GadgetInstance_create(
        [gadget_name |-> Some(create_vector(x.gadget_name)),
         incoming_variable_ids |-> Some(create_vector(x.incoming_variable_ids)),
         outgoing_variable_ids |->
             IF is_some(x.outgoing_variable_ids)
             THEN Some(create_vector(unwrap(x.outgoing_variable_ids)))
             ELSE None,
         free_variable_id_before |-> x.free_variable_id_before,
         field_order |-> IF is_some(x.field_order)
                         THEN Some(create_vector(unwrap(x.field_order)))
                         ELSE None,
         configuration |-> None])

\* make_assignment_request leaving free_variable_id_before at its default
make_assignment_request_buf_unset(instance) ==
    finish_size_prefixed(Root_create(MsgAssignmentRequest,
        AssignmentRequest_create(
            [instance |-> Some(InstanceDescription_build(
                 [instance EXCEPT !.free_variable_id_before = 0])),
             incoming_elements |-> None,
             witness |-> None])))

\* make_assignment_request up to call_gadget: the request buffer
make_assignment_request_buf(instance) ==
    finish_size_prefixed(Root_create(MsgAssignmentRequest,
        AssignmentRequest_create(
            [instance |-> Some(InstanceDescription_build(instance)),
             incoming_elements |-> None,
             witness |-> None])))

\* the native side reading the instance of a request buffer back
read_instance(buf) ==
    LET root == get_size_prefixed_root_as_root(buf)
        request == IF root.tag = "ok"
                   THEN message_as_assignment_request(root) ELSE None
    IN  IF is_some(request) /\ is_some(unwrap(request).instance)
        THEN LET f == GadgetInstance_read(unwrap(unwrap(request).instance))
             IN  IF is_some(f.gadget_name) /\ is_some(f.incoming_variable_ids)
                 THEN Some([gadget_name |-> unwrap(f.gadget_name),
                            incoming_variable_ids |->
                                unwrap(f.incoming_variable_ids),
                            outgoing_variable_ids |-> f.outgoing_variable_ids,
                            free_variable_id_before |->
                                f.free_variable_id_before,
                            field_order |-> f.field_order])
                 ELSE None
        ELSE None

\* call_gadget_wrapper writing the circuit alone
call_gadget_wrapper_buf_circuit(circuit, command) ==
    CircuitOwned_write(circuit, <<>>)

\* call_gadget_wrapper up to the native call: message_buf
call_gadget_wrapper_buf(circuit, command) ==
    CommandOwned_write(command, CircuitOwned_write(circuit, <<>>))

\* WitnessOwned::build
WitnessOwned_build(self) ==
    Root_create(MsgWitness, Witness_create(
        [assigned_variables |->
             Some(VariablesOwned_build(self.assigned_variables))]))

\* write_into finishing the builder without a size prefix
write_into_unprefixed(self, writer) ==
    writer \o WitnessOwned_build(self)

\* WitnessOwned::write_into
write_into(self, writer) ==
    writer \o finish_size_prefixed(WitnessOwned_build(self))

\* Root::message_as_witness: Some only for that discriminant
message_as_witness(root) ==
    IF root.message_type = MsgWitness THEN Some(root.body) ELSE None

\* Witness::assigned_variables, an optional table
Witness_assigned_variables(w) ==
    IF Len(w) >= 1 /\ Bit(w[1], HasTable)
    THEN Some(SubSeq(w, 2, Len(w))) ELSE None

\* VariablesOwned::from: the ids, empty when absent, and the optional values
VariablesOwned_from(v) ==
    [variable_ids |-> IF is_some(variable_ids(v))
                      THEN unwrap(variable_ids(v)) ELSE <<>>,
     values |-> elements(v)]

\* WitnessOwned::from(fb::Witness): assigned_variables().unwrap()
WitnessOwned_from(witness_ref) ==
    LET assigned == Witness_assigned_variables(witness_ref)
    IN  IF is_some(assigned)
        THEN [tag |-> "Ok",
              value |-> [assigned_variables |->
                             VariablesOwned_from(unwrap(assigned))]]
        ELSE [tag |-> "panic"]

\* try_from falling back to WitnessOwned::default() for another message
try_from_or_default(buffer) ==
    LET root == get_size_prefixed_root_as_root(buffer)
    IN  IF root.tag = "panic" THEN [tag |-> "panic"]
        ELSE IF is_some(message_as_witness(root))
        THEN WitnessOwned_from(unwrap(message_as_witness(root)))
        ELSE [tag |-> "Ok",
              value |-> [assigned_variables |->
                             [variable_ids |-> <<>>, values |-> None]]]

\* WitnessOwned::try_from(&[u8])
try_from(buffer) ==
    LET root == get_size_prefixed_root_as_root(buffer)
    IN  IF root.tag = "panic" THEN [tag |-> "panic"]
        ELSE IF is_some(message_as_witness(root))
        THEN WitnessOwned_from(unwrap(message_as_witness(root)))
        ELSE [tag |-> "Err", error |-> "Not a Witness message."]

\* a discriminant no message of the schema has
MsgUnknown == 99

\* the buffers handed to try_from: encoded witnesses, messages of the other
\* kinds, an unknown kind, a Witness without its table, a buffer that ends
\* inside its prefix
TryFromBuffers ==
    {write_into(w, <<>>) : w \in WitnessOwneds}
    \cup {make_assignment_request_buf(x) : x \in InstanceDescriptions}
    \cup {CircuitOwned_write(c, <<>>) : c \in CircuitOwneds}
    \cup {CommandOwned_write(m, <<>>) : m \in CommandOwneds}
    \cup {MsgTwoVars, MsgNoVars, MsgResponse, BufTruncated,
          finish_size_prefixed(<<MsgNONE>>),
          finish_size_prefixed(<<MsgUnknown>>),
          finish_size_prefixed(Root_create(MsgWitness,
              Witness_create([assigned_variables |-> None])))}

\* the values an encoder is applied to
CodecInputs ==
    {[op |-> "write_into", stage |-> "input", self |-> w, before |-> b,
      writer |-> b] : w \in WitnessOwneds, b \in Writers}
    \cup {[op |-> "make_assignment_request", stage |-> "input",
           instance |-> x] : x \in InstanceDescriptions}
    \cup {[op |-> "call_gadget_wrapper", stage |-> "input", circuit |-> c,
           command |-> m] : c \in CircuitOwneds, m \in CommandOwneds}
    \cup {[op |-> "try_from", stage |-> "input", buffer |-> b] :
              b \in TryFromBuffers}

InitCodec ==
    /\ variant = "prefixed"
    /\ InitBridge
    /\ codec \in CodecInputs
    /\ ThreadsOff
    /\ ChannelsOff
    /\ GadgetOff

\* witness.write_into(&mut writer)
codec_write_into ==
    /\ codec.op = "write_into"
    /\ codec.stage = "input"
    /\ codec' = [codec EXCEPT !.stage = "written",
                              !.writer = write_into(codec.self, @)]
    /\ UNCHANGED <<bridge, calls, scratch, gadget, test, received>>

\* the request buffer of make_assignment_request
codec_make_assignment_request ==
    /\ codec.op = "make_assignment_request"
    /\ codec.stage = "input"
    /\ codec' = [op |-> codec.op, stage |-> "encoded",
                 instance |-> codec.instance,
                 buf |-> make_assignment_request_buf(codec.instance)]
    /\ UNCHANGED <<bridge, calls, scratch, gadget, test, received>>

\* the request buffer of call_gadget_wrapper
codec_call_gadget_wrapper ==
    /\ codec.op = "call_gadget_wrapper"
    /\ codec.stage = "input"
    /\ codec' = [op |-> codec.op, stage |-> "encoded",
                 circuit |-> codec.circuit, command |-> codec.command,
                 buf |-> call_gadget_wrapper_buf(codec.circuit, codec.command)]
    /\ UNCHANGED <<bridge, calls, scratch, gadget, test, received>>

\* the native side decodes the instance of an assignment request
codec_read_instance ==
    /\ codec.op = "make_assignment_request"
    /\ codec.stage = "encoded"
    /\ codec' = [op |-> codec.op, stage |-> "decoded",
                 instance |-> codec.instance, buf |-> codec.buf,
                 decoded |-> read_instance(codec.buf)]
    /\ UNCHANGED <<bridge, calls, scratch, gadget, test, received>>

\* WitnessOwned::try_from(&buffer[..])
codec_try_from ==
    /\ codec.op = "try_from"
    /\ codec.stage = "input"
    /\ codec' = [op |-> codec.op, stage |-> "converted",
                 buffer |-> codec.buffer, out |-> try_from(codec.buffer)]
    /\ UNCHANGED <<bridge, calls, scratch, gadget, test, received>>

NextCodec ==
    \/ codec_write_into
    \/ codec_make_assignment_request
    \/ codec_call_gadget_wrapper
    \/ codec_read_instance
    \/ codec_try_from

SpecCodec == InitCodec /\ [][NextCodec]_vars

\* ------------------------------------------- two calls on two threads
\* the buffers the native routine called by thread t streams
NativeStream(t) ==
    IF t = 1 THEN {MsgTwoVars, MsgNoVars} ELSE {MsgOneVar, MsgShort}

\* the terminal buffer of the native routine called by thread t
NativeResponse(t) == EncodeAssignmentResponse(104 + t)

\* one context shared by every call
context_ptr_static(t) == 1

\* &mut context as *mut CallbackContext: the address of the local of the
\* call made by thread t
context_ptr(t) == t

\* an entry that keeps the pointer it was given
Vec_borrow(buf, ptr) == [ptr |-> ptr]

\* Vec::from(buf): the bytes of the slice at ptr, copied into owned storage
Vec_from(buf, ptr) == [bytes |-> buf]

\* the bytes a stored entry gives when it is read, heap being the native
\* buffers as they are now
bytes_of(entry, heap) ==
    IF "bytes" \in DOMAIN entry THEN entry.bytes ELSE heap[entry.ptr]

InitThreads ==
    /\ variant = "prefixed"
    /\ InitBridge
    /\ CodecOff
    /\ ThreadsOff
    /\ ChannelsOff
    /\ GadgetOff

\* call_gadget on thread t, up to the native call
thread_call_gadget(t) ==
    /\ calls[t].pc = "idle"
    /\ calls' = [calls EXCEPT ![t].pc = "native",
                              ![t].context = NewCallbackContext]
    /\ UNCHANGED <<bridge, received, codec, scratch, gadget, test>>

\* the native routine of thread t fills its buffer with a message and
\* passes it to result_stream_callback_c with the context pointer it holds
thread_result_stream_callback_c(t) ==
    /\ calls[t].pc = "native"
    /\ Len(calls[t].delivered) < MaxStream
    /\ \E mem \in NativeStream(t) : \E o \in from_c(mem) :
        /\ scratch' = [scratch EXCEPT ![t] = mem]
        /\ IF o.tag = "ok" /\ calls[context_ptr(t)].pc = "native"
           THEN calls' = [calls EXCEPT
                    ![t].delivered = Append(@, mem),
                    ![context_ptr(t)].context =
                        push_result(@, Vec_from(o.buf, t))]
           ELSE calls' = [calls EXCEPT ![t].pc = "aborted"]
    /\ UNCHANGED <<bridge, received, codec, gadget, test>>

\* the native routine of thread t passes its terminal message to
\* response_callback_c
thread_response_callback_c(t) ==
    /\ calls[t].pc = "native"
    /\ calls[t].terminalCalls < MaxResponse
    /\ \E o \in from_c(NativeResponse(t)) :
        /\ scratch' = [scratch EXCEPT ![t] = NativeResponse(t)]
        /\ IF o.tag = "ok" /\ calls[context_ptr(t)].pc = "native"
           THEN calls' = [calls EXCEPT
                    ![t].terminal = Some(NativeResponse(t)),
                    ![t].terminalCalls = @ + 1,
                    ![context_ptr(t)].context =
                        set_response(@, Vec_from(o.buf, t))]
           ELSE calls' = [calls EXCEPT ![t].pc = "aborted"]
    /\ UNCHANGED <<bridge, received, codec, gadget, test>>

\* between two callbacks or before it returns, the native routine of
\* thread t frees the buffer it passed
thread_native_free(t) ==
    /\ calls[t].pc = "native"
    /\ scratch[t] # <<>>
    /\ scratch' = [scratch EXCEPT ![t] = <<>>]
    /\ UNCHANGED <<bridge, received, codec, calls, gadget, test>>

\* the native routine of thread t returns, and call_gadget with it
thread_native_return(t) ==
    /\ calls[t].pc = "native"
    /\ \E okv \in BOOLEAN :
        calls' = [calls EXCEPT ![t].pc = "returned",
                               ![t].result = match_ok(okv, calls[t].context),
                               ![t].context = NoContext]
    /\ UNCHANGED <<bridge, received, codec, scratch, gadget, test>>

NextThreads ==
    \E t \in Threads :
        \/ thread_call_gadget(t)
        \/ thread_result_stream_callback_c(t)
        \/ thread_response_callback_c(t)
        \/ thread_native_free(t)
        \/ thread_native_return(t)

SpecThreads == InitThreads /\ [][NextThreads]_vars

\* the context the call of thread t fills or has returned
Held(t) ==
    IF calls[t].pc = "native" THEN calls[t].context
    ELSE IF calls[t].pc = "returned" /\ calls[t].result.tag = "Ok"
    THEN calls[t].result.ctx
    ELSE NoContext

\* the call of thread t holds a context
Holds(t) == Held(t) # NoContext

\* every buffer the native routine of thread t can pass
NativeBuffers(t) == NativeStream(t) \cup {NativeResponse(t)}

\* a buffer cut into the size-prefixed envelopes it consists of; ok tells
\* whether the envelopes cover the buffer exactly
RECURSIVE SplitEnvelopes(_)
SplitEnvelopes(buf) ==
    IF buf = <<>> THEN [ok |-> TRUE, list |-> <<>>]
    ELSE IF ~ValidEnvelope(buf) THEN [ok |-> FALSE, list |-> <<>>]
    ELSE LET n == as_usize(u32_add(read_size_prefix(SubSeq(buf, 1, 4)), 4))
             rest == SplitEnvelopes(SubSeq(buf, n + 1, Len(buf)))
         IN  [ok |-> rest.ok, list |-> <<SubSeq(buf, 1, n)>> \o rest.list]

\* the union discriminant of a size-prefixed envelope
MessageType(envelope) == get_size_prefixed_root_as_root(envelope).message_type

\* ------------------------------------------- calls served by a gadget
\* The native gadget is not part of the Rust sources: it reads the request,
\* allocates new variables from the free variable id of the request upwards,
\* streams what it computed and reports the next free id in its terminal
\* message.

\* the instances test_gadget_request-like callers ask for
RequestInstances ==
    {x \in InstanceDescriptions :
        /\ x.gadget_name = <<115, 104>>
        /\ x.outgoing_variable_ids = None
        /\ x.field_order = None}

\* subcircuit of test_cpp_gadget
Subcircuit ==
    [connections |-> [variable_ids |-> <<100, 101, 102, 103>>, values |-> None],
     free_variable_id |-> 104,
     field_maximum |-> None]

\* subcircuit.connections.values = Some(vec![4, 5, 6, 14, 15, 16])
SubcircuitWithValues ==
    [Subcircuit EXCEPT !.connections.values = Some(<<4, 5, 6, 14, 15, 16>>)]

\* the numbers of variables the gadget allocates in one message
AllocCounts == {1, 40}

\* the element bytes the test gadget assigns to its first variables
GadgetElements == <<10, 11, 12, 8, 7, 6>>

\* the free variable id a gadget finds in the request it is handed
request_free_variable_id(buf) ==
    LET first == SplitEnvelopes(buf).list[1]
        root == get_size_prefixed_root_as_root(first)
    IN  IF root.message_type = MsgCircuit
        THEN Circuit_free_variable_id(root.body)
        ELSE unwrap(read_instance(first)).free_variable_id_before

\* the gadget attached to a call with request buffer buf
NewGadget(buf) ==
    [request |-> buf, next_id |-> request_free_variable_id(buf),
     responded |-> FALSE]

\* the message in which the gadget of the wrapper reports n new variables
GadgetContent(kind, n) == finish_size_prefixed(<<kind, n>>)

\* the Circuit message a gadget returns: its outputs and the next free id
GadgetReturn(free_variable_id) ==
    CircuitOwned_write([connections |-> [variable_ids |-> <<>>, values |-> None],
                        free_variable_id |-> free_variable_id,
                        field_maximum |-> None], <<>>)

\* Messages::circuits: the Circuit messages among those received
RECURSIVE circuits(_)
circuits(messages) ==
    IF messages = <<>> THEN <<>>
    ELSE LET m == messages[Len(messages)]
             before == circuits(SubSeq(messages, 1, Len(messages) - 1))
         IN  IF MessageType(m) = MsgCircuit THEN Append(before, m) ELSE before

\* Messages::last_circuit().unwrap().free_variable_id()
last_free_variable_id(messages) ==
    LET c == circuits(messages)
    IN  Circuit_free_variable_id(get_size_prefixed_root_as_root(c[Len(c)]).body)

InitGadget ==
    /\ variant \in {"prefixed", "wrapper"}
    /\ InitBridge
    /\ CodecOff
    /\ ThreadsOff
    /\ ChannelsOff
    /\ gadget = NoGadget
    /\ test = [step |-> "start"]

\* make_assignment_request: the request is built and call_gadget entered
make_assignment_request ==
    /\ variant = "prefixed"
    /\ pc = "idle"
    /\ test.step = "start"
    /\ \E x \in RequestInstances :
        /\ test' = [step |-> "called", instance |-> x]
        /\ gadget' = NewGadget(make_assignment_request_buf(x))
    /\ pc' = "native"
    /\ context' = NewCallbackContext
    /\ UNCHANGED <<variant, result, ok, streamed, terminalCalls, alloc, readEnd,
                   lastRet, iters, yielded, responseOut>>
    /\ UNCHANGED <<received, codec, calls, scratch>>

\* the gadget allocates k variables and streams their values through
\* result_stream_callback_c
gadget_assign ==
    /\ variant = "prefixed"
    /\ pc = "native"
    /\ ~gadget.responded
    /\ Len(streamed) < MaxStream
    /\ \E k \in 1..2 :
        LET mem == EncodeAssignedVariables(
                       [i \in 1..k |-> gadget.next_id + i - 1],
                       SubSeq(GadgetElements, 1, 3 * k))
        IN  \E o \in from_c(mem) :
            /\ o.tag = "ok"
            /\ streamed' = Append(streamed, mem)
            /\ alloc' = Len(mem)
            /\ readEnd' = o.read
            /\ context' = push_result(context, o.buf)
            /\ lastRet' = "true"
            /\ gadget' = [gadget EXCEPT !.next_id = @ + k]
    /\ UNCHANGED <<variant, pc, result, ok, terminalCalls, iters, yielded,
                   responseOut>>
    /\ UNCHANGED <<received, codec, calls, scratch, test>>

\* the gadget reports the next free id through response_callback_c
gadget_respond ==
    /\ variant = "prefixed"
    /\ pc = "native"
    /\ ~gadget.responded
    /\ LET mem == EncodeAssignmentResponse(gadget.next_id)
       IN  \E o \in from_c(mem) :
            /\ o.tag = "ok"
            /\ terminalCalls' = terminalCalls + 1
            /\ alloc' = Len(mem)
            /\ readEnd' = o.read
            /\ context' = set_response(context, o.buf)
            /\ lastRet' = "true"
            /\ gadget' = [gadget EXCEPT !.responded = TRUE]
    /\ UNCHANGED <<variant, pc, result, ok, streamed, iters, yielded,
                   responseOut>>
    /\ UNCHANGED <<received, codec, calls, scratch, test>>

\* call_gadget_wrapper up to the native call
enter_wrapper(circuit, command) ==
    /\ gadget' = NewGadget(call_gadget_wrapper_buf(circuit, command))
    /\ context' = NewMessages(circuit.free_variable_id)
    /\ pc' = "native"
    /\ result' = [tag |-> "none", ctx |-> NoContext]
    /\ ok' = "none"
    /\ streamed' = <<>>
    /\ terminalCalls' = 0

\* test_cpp_gadget up to its first call of the native routine
test_cpp_gadget ==
    /\ variant = "wrapper"
    /\ pc = "idle"
    /\ test.step = "start"
    /\ enter_wrapper(Subcircuit, [constraints_generation |-> TRUE,
                                  witness_generation |-> FALSE])
    /\ test' = [step |-> "r1cs", line |-> 0,
                free_variable_id_after |-> None,
                free_variable_id_after2 |-> None]
    /\ UNCHANGED <<variant, alloc, readEnd, lastRet, iters, yielded,
                   responseOut>>
    /\ UNCHANGED <<received, codec, calls, scratch>>

\* the gadget passes a message to receive_message_callback: what it
\* computed for n newly allocated variables, or its return Circuit
gadget_message ==
    /\ variant = "wrapper"
    /\ pc = "native"
    /\ ~gadget.responded
    /\ \E last \in BOOLEAN : \E n \in AllocCounts :
        LET mem == IF last THEN GadgetReturn(gadget.next_id)
                   ELSE GadgetContent(IF test.step = "r1cs"
                                      THEN MsgR1CSConstraints
                                      ELSE MsgWitness, n)
        IN  /\ ~last => Len(streamed) < MaxStream
            /\ \E o \in from_c(mem) :
                /\ o.tag = "ok"
                /\ alloc' = Len(mem)
                /\ readEnd' = o.read
                /\ LET r == push_message(context, o.buf)
                   IN  /\ context' = r.ctx
                       /\ lastRet' = IF r.is_ok THEN "true" ELSE "false"
                /\ IF last
                   THEN /\ gadget' = [gadget EXCEPT !.responded = TRUE]
                        /\ terminalCalls' = terminalCalls + 1
                        /\ streamed' = streamed
                   ELSE /\ gadget' = [gadget EXCEPT !.next_id = @ + n]
                        /\ terminalCalls' = terminalCalls
                        /\ streamed' = Append(streamed, mem)
    /\ UNCHANGED <<variant, pc, result, ok, iters, yielded, responseOut>>
    /\ UNCHANGED <<received, codec, calls, scratch, test>>

\* the test stops at the assertion of the given source line
Panicked(line) == [test EXCEPT !.step = "panicked", !.line = line]

\* test_cpp_gadget from the return of its first call to its second call
test_after_r1cs ==
    /\ variant = "wrapper"
    /\ pc = "returned"
    /\ test.step = "r1cs"
    /\ IF result.tag # "Ok"
       THEN test' = Panicked(102) /\ UNCHANGED <<bridge, gadget>>
       ELSE IF Len(result.ctx.messages) # 2
       THEN test' = Panicked(107) /\ UNCHANGED <<bridge, gadget>>
       ELSE IF Len(circuits(result.ctx.messages)) # 1
       THEN test' = Panicked(108) /\ UNCHANGED <<bridge, gadget>>
       ELSE LET after == last_free_variable_id(result.ctx.messages)
            IN  IF after # 104 + 40
                THEN /\ test' = [Panicked(115) EXCEPT
                                    !.free_variable_id_after = Some(after)]
                     /\ UNCHANGED <<bridge, gadget>>
                ELSE /\ test' = [test EXCEPT
                                    !.step = "witness",
                                    !.free_variable_id_after = Some(after)]
                     /\ enter_wrapper(SubcircuitWithValues,
                                      [constraints_generation |-> FALSE,
                                       witness_generation |-> TRUE])
                     /\ UNCHANGED <<variant, alloc, readEnd, lastRet, iters,
                                    yielded, responseOut>>
    /\ UNCHANGED <<received, codec, calls, scratch>>

\* test_cpp_gadget from the return of its second call to its end; what
\* iter_witness yields is the gadget's own data and either meets the
\* assertions on it or not
test_after_witness ==
    /\ variant = "wrapper"
    /\ pc = "returned"
    /\ test.step = "witness"
    /\ \E witness_as_asserted \in BOOLEAN :
        test' =
            IF result.tag # "Ok" THEN Panicked(123)
            ELSE IF Len(result.ctx.messages) # 2 THEN Panicked(129)
            ELSE IF Len(circuits(result.ctx.messages)) # 1 THEN Panicked(130)
            ELSE IF ~witness_as_asserted THEN Panicked(140)
            ELSE LET after2 == last_free_variable_id(result.ctx.messages)
                     read == [test EXCEPT
                                 !.free_variable_id_after2 = Some(after2)]
                 IN  IF after2 # 102 + 1 + 2
                     THEN [read EXCEPT !.step = "panicked", !.line = 149]
                     ELSE IF after2 # unwrap(test.free_variable_id_after)
                     THEN [read EXCEPT !.step = "panicked", !.line = 150]
                     ELSE [read EXCEPT !.step = "passed"]
    /\ UNCHANGED <<bridge, received, codec, calls, scratch, gadget>>

NextGadget ==
    \/ make_assignment_request
    \/ gadget_assign
    \/ gadget_respond
    \/ test_cpp_gadget
    \/ gadget_message
    \/ native_return
    \/ response
    \/ test_after_r1cs
    \/ test_after_witness

SpecGadget == InitGadget /\ [][NextGadget]_vars

\* --------------------------------------- the three channels of the wrapper
\* the callbacks gadgetlib_call_gadget is given, one per channel
Channels == {"constraints", "witness", "return"}

\* the buffers the native routine passes on a channel
ChannelBuffers(channel) ==
    IF channel = "constraints"
    THEN {GadgetContent(MsgR1CSConstraints, 1), BufMaxPrefix}
    ELSE IF channel = "witness"
    THEN {GadgetContent(MsgWitness, 1), BufTruncated}
    ELSE {GadgetReturn(FirstFreeId + 40), BufMaxPrefix}

\* a callback that reports success whatever push_message returned
callback_ret_true(r) == "true"

\* context.push_message(Vec::from(buf)).is_ok()
callback_ret(r) == IF r.is_ok THEN "true" ELSE "false"

InitChannels ==
    /\ variant = "wrapper"
    /\ InitBridge
    /\ CodecOff
    /\ ThreadsOff
    /\ ChannelsOff
    /\ GadgetOff

\* receive_message_callback invoked by the native routine on one of its
\* three channels, each registered with the address of output_context
channel_receive_message_callback ==
    /\ pc = "native"
    /\ variant = "wrapper"
    /\ Len(received) < MaxStream + 1
    /\ \E channel \in Channels : \E mem \in ChannelBuffers(channel) :
       \E o \in from_c(mem) :
        /\ alloc' = Len(mem)
        /\ readEnd' = o.read
        /\ IF o.tag = "ok"
           THEN LET r == push_message(context, o.buf)
                IN  /\ context' = r.ctx
                    /\ lastRet' = callback_ret(r)
                    /\ received' = Append(received,
                           [channel |-> channel, buf |-> o.buf,
                            pushed |-> r.is_ok])
                    /\ pc' = pc
           ELSE /\ pc' = "aborted"
                /\ UNCHANGED <<context, lastRet, received>>
    /\ UNCHANGED <<variant, result, ok, streamed, terminalCalls, iters,
                   yielded, responseOut>>
    /\ UNCHANGED <<codec, calls, scratch, gadget, test>>

NextChannels ==
    \/ call_gadget
    \/ channel_receive_message_callback
    \/ native_return

SpecChannels == InitChannels /\ [][NextChannels]_vars

\* the buffers of the history entries whose push succeeded, in order
RECURSIVE Pushed(_)
Pushed(history) ==
    IF history = <<>> THEN <<>>
    ELSE LET h == history[Len(history)]
             before == Pushed(SubSeq(history, 1, Len(history) - 1))
         IN  IF h.pushed THEN Append(before, h.buf) ELSE before

\* the Messages the wrapper call fills or has returned
HeldMessages ==
    IF pc = "native" THEN context
    ELSE IF pc = "returned" /\ result.tag = "Ok" THEN result.ctx
    ELSE NoContext

\* ----------------------------------------------------------- properties
\* the accumulated messages an iterator walks
Stream ==
    IF variant = "prefixed" /\ result.tag = "Ok"
    THEN result.ctx.result_stream ELSE <<>>

\* the records of one Assignment message, at that message's own stride
RecordsOf(ids, els) ==
    [i \in 1..Len(ids) |->
        [id |-> ids[i],
         element |-> SubSeq(els, (Len(els) \div Len(ids)) * (i - 1) + 1,
                            (Len(els) \div Len(ids)) * i)]]

\* the records of the first n accumulated messages, in receipt order
RECURSIVE RecordsUpTo(_, _)
RecordsUpTo(stream, n) ==
    IF n = 0 THEN <<>>
    ELSE LET m == parse_assigned_variables(stream[n])
         IN  RecordsUpTo(stream, n - 1)
             \o (IF m.tag = "ok" THEN RecordsOf(m.var_ids, m.elements)
                 ELSE <<>>)

\* iterator k holds a parsed message whose records it is handing out
Loaded(k) ==
    /\ iters[k].state # "absent"
    /\ iters[k].messages_iter >= 1
    /\ parse_assigned_variables(Stream[iters[k].messages_iter]).tag = "ok"

\* every accumulated message parses as an Assignment payload that has at
\* least as many element bytes as ids
WellFormedStream ==
    \A n \in 1..Len(Stream) :
        LET m == parse_assigned_variables(Stream[n])
        IN  m.tag = "ok" /\ Len(m.elements) >= Len(m.var_ids)

\* the number of ids in the first n accumulated messages
RECURSIVE IdCount(_, _)
IdCount(stream, n) ==
    IF n = 0 THEN 0
    ELSE IdCount(stream, n - 1)
         + Len(parse_assigned_variables(stream[n]).var_ids)

\* C1: whenever the native routine returned false, the call returned an
\* error, and neither the error nor the call frame holds any accumulated
\* context, whatever number of callbacks fired before.
C1_FailureIsAllOrNothing ==
    (pc = "returned" /\ ok = "false")
        => /\ result = [tag |-> "Err", ctx |-> NoContext]
           /\ context = NoContext
           /\ \A k \in Iterators : iters[k].state = "absent"

\* C1 witness: a failed call after two stream callbacks and a terminal one
C1_Witness ==
    /\ pc = "returned" /\ ok = "false" /\ result.tag = "Err"
    /\ Len(streamed) = 2 /\ terminalCalls = 1

\* C2: while the call runs, result_stream is exactly the sequence of buffers
\* passed to the stream callback, in invocation order.
C2_StreamIsBuffersPassed ==
    (pc = "native" /\ variant # "wrapper")
        => context.result_stream = streamed

\* C3: once a terminal message is stored, a further terminal callback does
\* not replace it and reports the duplicate to the native side.
C3_TerminalSetOnce ==
    [][(pc = "native" /\ pc' = "native" /\ variant # "wrapper"
        /\ is_some(context.response) /\ terminalCalls' # terminalCalls)
          => (context'.response = context.response /\ lastRet' = "false")]_vars

\* C4: a call returns a successful context only if the terminal callback
\* stored a response in it.
C4_NoSuccessWithoutTerminal ==
    (pc = "returned" /\ variant # "wrapper" /\ result.tag = "Ok")
        => is_some(result.ctx.response)

\* C5: a callback given fewer than 4 bytes reads nothing past the end of the
\* allocation and reports failure.
C5_PrefixReadInBounds ==
    (variant # "sized" /\ Len(streamed) + terminalCalls > 0 /\ alloc < 4)
        => (readEnd <= alloc /\ lastRet = "false")

\* C6: every buffer an iterator or response() has decoded declares a length
\* that fits the buffer (declared_length + 4 <= buffer length).
C6_DecodeOnlyValidated ==
    /\ \A k \in Iterators :
        iters[k].state # "absent"
            => \A i \in 1..iters[k].messages_iter : ValidEnvelope(Stream[i])
    /\ (responseOut.tag \in {"Some", "panic"}
            => ValidEnvelope(unwrap(result.ctx.response)))

\* C7: what an iterator has yielded is the concatenation, in receipt order,
\* of the records of the messages it has finished, each at its own stride,
\* followed by the first next_element records of the message it is in; an
\* exhausted iterator has yielded the records of all messages.
C7_YieldsRecordsInOrder ==
    \A k \in Iterators :
        iters[k].state # "absent"
            => /\ yielded[k] =
                    IF Loaded(k)
                    THEN RecordsUpTo(Stream, iters[k].messages_iter - 1)
                         \o SubSeq(RecordsOf(iters[k].var_ids,
                                             iters[k].elements),
                                   1, iters[k].next_element)
                    ELSE RecordsUpTo(Stream,
                                     Max(iters[k].messages_iter - 1, 0))
               /\ (iters[k].last = "none"
                      => yielded[k] = RecordsUpTo(Stream, Len(Stream)))

\* C7 witness: an iterator exhausted two messages of strides 3 and 2
C7_Witness ==
    /\ Stream = <<MsgTwoVars, MsgOneVar>>
    /\ iters[1].state = "active" /\ iters[1].last = "none"
    /\ Len(yielded[1]) = 3
    /\ yielded[1][2].element = <<8, 7, 6>>
    /\ yielded[1][3].element = <<9, 9>>

\* C8: a message whose elements length is not a multiple of its id count
\* makes the iterator fail before it yields any of its records.
C8_UnevenElementsRejected ==
    \A k \in Iterators :
        (Loaded(k) /\ Len(iters[k].var_ids) > 0
         /\ Len(iters[k].elements) % Len(iters[k].var_ids) # 0)
            => (iters[k].state = "panicked" /\ iters[k].next_element = 0)

\* C9: at a message with ids but fewer elements than ids the iterator has
\* failed at the first record, has yielded no empty value, and has yielded
\* exactly the records of the earlier messages.
C9_ZeroStrideIsFatal ==
    \A k \in Iterators :
        /\ \A j \in 1..Len(yielded[k]) : Len(yielded[k][j].element) > 0
        /\ (Loaded(k) /\ Len(iters[k].var_ids) > 0
            /\ Len(iters[k].elements) < Len(iters[k].var_ids))
              => /\ iters[k].state = "panicked"
                 /\ iters[k].next_element = 0
                 /\ yielded[k] = RecordsUpTo(Stream, iters[k].messages_iter - 1)

\* C9 witness: an iterator failed at a zero-stride message after it yielded
\* the two records of the message before
C9_Witness ==
    /\ Stream = <<MsgTwoVars, MsgShort>>
    /\ iters[1].state = "panicked"
    /\ iters[1].messages_iter = 2
    /\ Len(yielded[1]) = 2

\* C10: two iterators on one context yield the same sequence whatever the
\* interleaving of their next() calls (one is always a prefix of the other,
\* and they end alike), and no step after the call returned changes the
\* context.
C10_DecodeIsIdempotent ==
    /\ [](\A j, k \in Iterators :
            (iters[j].state # "absent" /\ iters[k].state # "absent")
                => /\ IsPrefix(yielded[j], yielded[k])
                      \/ IsPrefix(yielded[k], yielded[j])
                   /\ (iters[j].last \in {"none", "panic"}
                       /\ iters[k].last \in {"none", "panic"})
                         => (yielded[j] = yielded[k]
                             /\ iters[j].last = iters[k].last))
    /\ [][pc = "returned" => result' = result]_vars

\* C10 witness: both iterators exhausted the same two messages, each having
\* yielded the three records
C10_Witness ==
    /\ Stream = <<MsgTwoVars, MsgOneVar>>
    /\ iters[1].last = "none" /\ iters[2].last = "none"
    /\ Len(yielded[1]) = 3 /\ yielded[1] = yielded[2]

\* C11: response() returns None exactly when no terminal buffer was stored;
\* a stored buffer that is not a call outcome gives something other than
\* None.
C11_NoneIffNoTerminal ==
    (responseOut.tag # "uncalled")
        => (responseOut.tag = "None" <=> ~is_some(result.ctx.response))

\* C12: an iterator does not fail at a well-formed envelope of another
\* payload kind, and an exhausted iterator has yielded exactly the records
\* of the Assignment envelopes, in receipt order.
C12_ToleratesOtherKinds ==
    \A k \in Iterators :
        (iters[k].state # "absent" /\ iters[k].messages_iter >= 1)
            => LET buf == Stream[iters[k].messages_iter]
                   root == get_size_prefixed_root_as_root(buf)
               IN  /\ (ValidEnvelope(buf) /\ root.tag = "ok"
                       /\ root.message_type # MsgAssignedVariables)
                          => iters[k].state # "panicked"
                   /\ iters[k].last = "none"
                          => yielded[k] = RecordsUpTo(Stream, Len(Stream))

\* C20: from_c reads the size prefix L as the little-endian value of the
\* first four bytes and copies exactly L + 4 bytes: every entry stored by a
\* stream callback is L + 4 bytes long, L + 4 computed without wrapping.
C20_CopiesPrefixPlusFour ==
    (variant = "prefixed" /\ pc = "native")
        => \A i \in 1..Len(context.result_stream) :
               Len(streamed[i]) >= 4
                   => LET L == read_size_prefix(SubSeq(streamed[i], 1, 4))
                      IN  /\ L.lo = streamed[i][1] + 256 * streamed[i][2]
                          /\ L.hi = streamed[i][3] + 256 * streamed[i][4]
                          /\ ~u32_add(L, 4).overflow
                          /\ L.hi = 0
                          /\ Len(context.result_stream[i]) = L.lo + 4

C17_WriteIntoSizePrefixed ==
    (codec.op = "write_into" /\ codec.stage = "written")
        => LET added == SubSeq(codec.writer, Len(codec.before) + 1,
                               Len(codec.writer))
           IN  /\ IsPrefix(codec.before, codec.writer)
               /\ Len(added) > 0
               /\ Len(added) >= 4
               /\ read_size_prefix(SubSeq(added, 1, 4))
                      = [lo |-> Len(added) - 4, hi |-> 0]

C17_Witness ==
    /\ codec.op = "write_into"
    /\ codec.stage = "written"
    /\ codec.self = [assigned_variables |->
                         [variable_ids |-> <<>>, values |-> None]]
    /\ codec.before = <<7>>
    /\ Len(codec.writer) > 5

\* C18: an InstanceDescription encoded by make_assignment_request and read
\* back from the request buffer is the same value field for field, an
\* absent optional field staying absent and a present one present.
C18_RoundTrip ==
    (codec.op = "make_assignment_request" /\ codec.stage = "decoded")
        => codec.decoded = Some(codec.instance)

C18_Witness ==
    /\ codec.op = "make_assignment_request"
    /\ codec.stage = "decoded"
    /\ codec.instance.outgoing_variable_ids = None
    /\ codec.instance.field_order = Some(<<>>)
    /\ codec.instance.free_variable_id_before = 0
    /\ codec.instance.incoming_variable_ids = <<100, 101>>
    /\ is_some(codec.decoded)

\* C14: a call starts from its own empty context and the context it fills
\* and returns holds exactly the buffers passed to its own callbacks, in
\* order; under every interleaving of the calls of two threads no buffer
\* passed by one thread's native routine is in the other call's context.
C14_CallsAreIsolated ==
    \A t \in Threads :
        Holds(t)
            => /\ Len(Held(t).result_stream) = Len(calls[t].delivered)
               /\ \A i \in 1..Len(Held(t).result_stream) :
                      bytes_of(Held(t).result_stream[i], scratch)
                          = calls[t].delivered[i]
               /\ is_some(Held(t).response) <=> is_some(calls[t].terminal)
               /\ \A u \in Threads \ {t} :
                      /\ \A i \in 1..Len(Held(t).result_stream) :
                             bytes_of(Held(t).result_stream[i], scratch)
                                 \notin NativeBuffers(u)
                      /\ is_some(Held(t).response)
                             => bytes_of(unwrap(Held(t).response), scratch)
                                    \notin NativeBuffers(u)

C14_Witness ==
    /\ \A t \in Threads :
           /\ calls[t].pc = "returned"
           /\ calls[t].result.tag = "Ok"
           /\ Len(calls[t].result.ctx.result_stream) = 2
           /\ is_some(calls[t].result.ctx.response)
    /\ calls[1].delivered = <<MsgNoVars, MsgTwoVars>>
    /\ calls[2].delivered = <<MsgOneVar, MsgShort>>

\* C15: every stored entry is an owned copy: whatever the native routine
\* does to its buffer after a callback returned (passing it again with other
\* bytes, freeing it), each entry reads as the bytes passed to its callback.
C15_EntriesKeepTheirBytes ==
    \A t \in Threads :
        Holds(t)
            => /\ \A i \in 1..Len(Held(t).result_stream) :
                      /\ i <= Len(calls[t].delivered)
                      /\ bytes_of(Held(t).result_stream[i], scratch)
                             = calls[t].delivered[i]
               /\ is_some(Held(t).response)
                      => /\ is_some(calls[t].terminal)
                         /\ bytes_of(unwrap(Held(t).response), scratch)
                                = unwrap(calls[t].terminal)

C15_Witness ==
    /\ calls[1].pc = "native"
    /\ Len(calls[1].context.result_stream) = 2
    /\ calls[1].delivered = <<MsgTwoVars, MsgNoVars>>
    /\ is_some(calls[1].context.response)
    /\ scratch[1] = <<>>
    /\ calls[2].pc = "native"
    /\ calls[2].delivered = <<MsgOneVar>>
    /\ scratch[2] = NativeResponse(2)

C19_WitnessCallReportsSameFreeId ==
    (variant = "wrapper" /\ test.step \in {"panicked", "passed"}
     /\ is_some(test.free_variable_id_after2))
        => test.free_variable_id_after2 = test.free_variable_id_after

\* C21: the three channels of call_gadget_wrapper fill one context: its
\* message list is, in the order of the callback invocations, every buffer
\* of any channel whose push succeeded, the return message included; one
\* intermediate message and one return message give 2 messages of which 1
\* is a circuit; a callback returns false exactly when its push was
\* rejected.
C21_ChannelsShareOneContext ==
    variant = "wrapper"
        => /\ HeldMessages # NoContext
                  => HeldMessages.messages = Pushed(received)
           /\ (HeldMessages # NoContext /\ Len(received) = 2
               /\ received[1].channel # "return" /\ received[1].pushed
               /\ received[2].channel = "return" /\ received[2].pushed)
                  => /\ Len(HeldMessages.messages) = 2
                     /\ Len(circuits(HeldMessages.messages)) = 1
           /\ received # <<>>
                  => (lastRet = "false" <=> ~received[Len(received)].pushed)

C21_Witness ==
    /\ variant = "wrapper"
    /\ pc = "returned"
    /\ result.tag = "Ok"
    /\ Len(received) = 3
    /\ received[1].channel = "witness" /\ received[1].pushed
    /\ received[2].channel = "constraints" /\ ~received[2].pushed
    /\ received[3].channel = "return" /\ received[3].pushed
    /\ lastRet = "true"
    /\ Len(result.ctx.messages) = 2
    /\ Len(circuits(result.ctx.messages)) = 1

\* C22: try_from on a size-prefixed buffer whose root is not a Witness
\* (another kind, no kind, an unknown kind) returns the error
\* "Not a Witness message." and no WitnessOwned, default or partly filled.
C22_WrongKindIsRejected ==
    (codec.op = "try_from" /\ codec.stage = "converted")
        => LET root == get_size_prefixed_root_as_root(codec.buffer)
           IN  (root.tag = "ok" /\ root.message_type # MsgWitness)
                   => /\ codec.out.tag = "Err"
                      /\ codec.out.error = "Not a Witness message."

C22_Witness ==
    /\ codec.op = "try_from"
    /\ codec.stage = "converted"
    /\ codec.buffer = finish_size_prefixed(<<MsgUnknown>>)
    /\ codec.out.tag = "Err"

\* C23: over a context whose messages are all well-formed Assignment
\* payloads with at least as many element bytes as ids, the iterator never
\* fails, a record is only ever taken from a message that has ids (messages
\* without ids are passed over, so the stride is never computed over zero
\* ids), every call made before the sum of the id counts was yielded
\* yields one more record and the call made after it returns None, and every
\* further call returns None and yields nothing.
C23_IteratorTerminatesFused ==
    /\ []((WellFormedStream /\ iters[1].state # "absent")
            => /\ iters[1].state = "active"
               /\ Len(yielded[1]) <= IdCount(Stream, Len(Stream))
               /\ (iters[1].last = "none"
                      => /\ iters[1].messages_iter = Len(Stream)
                         /\ Len(yielded[1]) = IdCount(Stream, Len(Stream)))
               /\ (iters[1].last = "some"
                      => /\ Len(iters[1].var_ids) > 0
                         /\ iters[1].next_element >= 1
                         /\ iters[1].next_element <= Len(iters[1].var_ids)))
    /\ [][(WellFormedStream /\ iters[1].last = "none")
            => (iters'[1].last = "none" /\ yielded'[1] = yielded[1])]_vars
    /\ [][(WellFormedStream /\ iters[1].state = "active"
           /\ iters'[1] # iters[1])
            => IF Len(yielded[1]) < IdCount(Stream, Len(Stream))
               THEN /\ iters'[1].last = "some"
                    /\ Len(yielded'[1]) = Len(yielded[1]) + 1
               ELSE /\ iters'[1].last = "none"
                    /\ yielded'[1] = yielded[1]]_vars

\* C23 witness: past a message without ids the iterator yielded the one
\* record of the message after it, then returned None
C23_Witness ==
    /\ Stream = <<MsgNoVars, MsgOneVar>>
    /\ iters[1].state = "active" /\ iters[1].last = "none"
    /\ yielded[1] = <<[id |-> 105, element |-> <<9, 9>>]>>

====
